---- MODULE Spec2Model ----
(***************************************************************************)
(* A state-machine model of kilo.c: the terminal mode controller           *)
(* (enableRawMode / disableRawMode / die), the window geometry resolver    *)
(* (getWindowSize / getCursorPosition), the key decoder (editorReadKey),   *)
(* the screen renderer (editorRefreshScreen / editorDrawRows / abAppend)   *)
(* and the editor loop (main / editorProcessKeypress / editorMoveCursor).  *)
(*                                                                         *)
(* Bytes are integers 0..255.  A byte string is a sequence of bytes.       *)
(***************************************************************************)
EXTENDS Integers, Sequences, FiniteSets, TLC

(***************************************************************************)
(* Bounds of the model.                                                    *)
(***************************************************************************)
\* keystrokes the user types in one run
MaxKeys == 2
\* largest row count the primary size query reports (0..MaxRows)
MaxRows == 1
\* largest column count the primary size query reports (0..MaxCols)
MaxCols == 2
\* calls a client makes in the terminal-mode-controller harness
MaxCalls == 3
\* the renderer on its own: screens of up to MaxRowsR rows, as wide as the
\* banner plus up to MaxPadCols columns, and up to MaxFaults failed
\* allocations and short writes in one run
MaxRowsR == 3
MaxPadCols == 4
MaxFaults == 2
\* the geometry resolver on its own: a reply without 'R' that is MaxExtra
\* bytes longer than getCursorPosition's buffer
MaxExtra == 8

(***************************************************************************)
(* Byte values and key codes of the source.                                *)
(***************************************************************************)
NUL == 0
ESC == 27
SPACE == 32
PLUS == 43
MINUS == 45
SEMI == 59
LBRACKET == 91
TILDE == 126
CH_A == 65
CH_B == 66
CH_C == 67
CH_D == 68
CH_R == 82
CH_q == 113
CH_0 == 48
CH_9 == 57

ARROW_LEFT == 1000
ARROW_RIGHT == 1001
ARROW_UP == 1002
ARROW_DOWN == 1003

\* sizeof(buf) in getCursorPosition
BUFSZ == 32

\* CTRL_KEY(k) is ((k) & 0x1f): the low five bits of k
CTRL_KEY(k) == k % 32
\* the byte a terminal sends for Ctrl-Q
CTRL_Q == CTRL_KEY(CH_q)

\* faulty variant: the Ctrl mask applied to every byte read
CharToIntMasked(b) == b % 32
\* the value of a char holding byte b, converted to int (char is signed)
CharToInt(b) == IF b >= 128 THEN b - 256 ELSE b

\* "\x1b[2J", "\x1b[H", "\x1b[K", "\x1b[?25l", "\x1b[?25h", "\x1b[6n"
ED == <<27, 91, 50, 74>>
HOME == <<27, 91, 72>>
EL == <<27, 91, 75>>
CUR_HIDE == <<27, 91, 63, 50, 53, 108>>
CUR_SHOW == <<27, 91, 63, 50, 53, 104>>
DSR == <<27, 91, 54, 110>>
\* "\x1b[999C\x1b[999B"
FARCORNER == <<27, 91, 57, 57, 57, 67, 27, 91, 57, 57, 57, 66>>
CRLF == <<13, 10>>
\* "Kilo editor -- version 0.0.1"
WELCOME == <<75, 105, 108, 111, 32, 101, 100, 105, 116, 111, 114, 32, 45, 45,
             32, 118, 101, 114, 115, 105, 111, 110, 32, 48, 46, 48, 46, 49>>

(***************************************************************************)
(* struct termios: each flag word is the set of its flags that are on;     *)
(* the character-size mask CSIZE is two bits, CS8 is both of them.         *)
(***************************************************************************)
CcNames == {"VMIN", "VTIME", "VINTR"}

RawIflagOff == {"BRKINT", "ICRNL", "INPCK", "ISTRIP", "IXON"}
RawOflagOff == {"OPOST"}
CS8 == {"CSIZE0", "CSIZE1"}
RawLflagOff == {"ECHO", "ICANON", "IEXTEN", "ISIG"}

Termios(i, o, c, l, vmin, vtime) ==
  [c_iflag |-> i, c_oflag |-> o, c_cflag |-> c, c_lflag |-> l,
   c_cc |-> [n \in CcNames |-> CASE n = "VMIN" -> vmin
                                 [] n = "VTIME" -> vtime
                                 [] OTHER -> 3]]

\* E is a global: its orig_termios starts zero-initialised
ZeroTermios ==
  [c_iflag |-> {}, c_oflag |-> {}, c_cflag |-> {}, c_lflag |-> {},
   c_cc |-> [n \in CcNames |-> 0]]

\* the attribute sets a terminal may have at startup
CookedAttrs ==
  Termios({"BRKINT", "ICRNL", "IXON"}, {"OPOST", "ONLCR"}, {"CSIZE0", "CSIZE1", "CREAD"},
          {"ECHO", "ICANON", "IEXTEN", "ISIG", "ECHOE"}, 1, 0)
SevenBitAttrs ==
  Termios({"INPCK", "ISTRIP", "IGNBRK"}, {}, {"CSIZE1", "PARENB"},
          {"ICANON", "ISIG"}, 4, 2)
AttrSets == {CookedAttrs}

\* the attribute sets of the harness: every combination of a few flags
HarnessAttrs ==
  { Termios(i, o, c, l, vm, 0) :
      i \in SUBSET {"ICRNL", "IXON"}, o \in SUBSET {"OPOST"},
      c \in {{"CSIZE1"}, {"CSIZE0", "CSIZE1"}},
      l \in {{}, {"ECHO", "ICANON"}}, vm \in {0, 1} }

\* faulty variant: VMIN and VTIME left as captured, so that read() may block
MakeRawBlocking(t) ==
  [c_iflag |-> t.c_iflag \ RawIflagOff,
   c_oflag |-> t.c_oflag \ RawOflagOff,
   c_cflag |-> t.c_cflag \cup CS8,
   c_lflag |-> t.c_lflag \ RawLflagOff,
   c_cc |-> t.c_cc]
\* the attribute set enableRawMode computes from the captured one
MakeRaw(t) ==
  [c_iflag |-> t.c_iflag \ RawIflagOff,
   c_oflag |-> t.c_oflag \ RawOflagOff,
   c_cflag |-> t.c_cflag \cup CS8,
   c_lflag |-> t.c_lflag \ RawLflagOff,
   c_cc |-> [t.c_cc EXCEPT !["VMIN"] = 0, !["VTIME"] = 1]]

(***************************************************************************)
(* Pure helpers: C strings, sscanf("%d;%d"), snprintf("%d").               *)
(***************************************************************************)
\* C integer division truncates toward zero
CDiv(a, b) == IF a >= 0 THEN a \div b ELSE -((-a) \div b)

\* the byte at 1-based position i of the C string s (NUL at and past its end)
CAt(s, i) == IF i >= 1 /\ i <= Len(s) THEN s[i] ELSE NUL

IsSpace(b) == b \in {32, 9, 10, 11, 12, 13}
IsDigit(b) == b >= CH_0 /\ b <= CH_9

RECURSIVE SkipSpace(_, _)
SkipSpace(s, i) == IF IsSpace(CAt(s, i)) THEN SkipSpace(s, i + 1) ELSE i

RECURSIVE ScanDigits(_, _, _)
ScanDigits(s, i, acc) ==
  IF IsDigit(CAt(s, i))
  THEN ScanDigits(s, i + 1, acc * 10 + (CAt(s, i) - CH_0))
  ELSE [val |-> acc, next |-> i]

\* one %d conversion starting at position i: skips white space, takes an
\* optional sign and at least one digit
ScanInt(s, i) ==
  LET j == SkipSpace(s, i)
      signed == CAt(s, j) \in {PLUS, MINUS}
      k == IF signed THEN j + 1 ELSE j
      d == ScanDigits(s, k, 0)
  IN  IF CAt(s, j) = NUL THEN [st |-> "eof", val |-> 0, next |-> j]
      ELSE IF ~IsDigit(CAt(s, k)) THEN [st |-> "fail", val |-> 0, next |-> j]
      ELSE [st |-> "ok",
            val |-> IF CAt(s, j) = MINUS THEN -d.val ELSE d.val,
            next |-> d.next]

\* sscanf(s, "%d;%d", rows, cols): n is the return value, rowset/colset say
\* whether *rows / *cols were assigned
Sscanf2(s) ==
  LET r1 == ScanInt(s, 1)
      r2 == ScanInt(s, r1.next + 1)
  IN  IF r1.st = "eof" THEN [n |-> -1, rowset |-> FALSE, rows |-> 0, colset |-> FALSE, cols |-> 0]
      ELSE IF r1.st = "fail" THEN [n |-> 0, rowset |-> FALSE, rows |-> 0, colset |-> FALSE, cols |-> 0]
      ELSE IF CAt(s, r1.next) # SEMI \/ r2.st # "ok"
        THEN [n |-> 1, rowset |-> TRUE, rows |-> r1.val, colset |-> FALSE, cols |-> 0]
      ELSE [n |-> 2, rowset |-> TRUE, rows |-> r1.val, colset |-> TRUE, cols |-> r2.val]

\* the C string held in a byte array: the bytes before the first NUL
RECURSIVE CStr(_)
CStr(s) == IF s = <<>> \/ Head(s) = NUL THEN <<>> ELSE <<Head(s)>> \o CStr(Tail(s))

\* snprintf("%d", n)
RECURSIVE DecDigits(_)
DecDigits(n) == IF n < 10 THEN <<CH_0 + n>> ELSE DecDigits(n \div 10) \o <<CH_0 + (n % 10)>>
DecStr(n) == IF n < 0 THEN <<MINUS>> \o DecDigits(-n) ELSE DecDigits(n)

(***************************************************************************)
(* The append buffer.  ab is [b: the bytes, n: appends attempted so far,   *)
(* log: for each attempt the piece s, whether realloc succeeded, and the   *)
(* bytes of the buffer before and after the call];                         *)
(* F is the set of append attempts (by number) whose realloc fails.        *)
(***************************************************************************)
ABUF_INIT == [b |-> <<>>, n |-> 0, log |-> <<>>]

\* faulty variant: the old pointer is overwritten before the NULL test, so
\* that a failed realloc loses the content
abAppendLoseOnFail(ab, s, F) ==
  LET ok == (ab.n + 1) \notin F
      new == IF ok THEN ab.b \o s ELSE <<>>
  IN  [b |-> new, n |-> ab.n + 1,
       log |-> Append(ab.log, [s |-> s, ok |-> ok, before |-> ab.b, after |-> new])]

abAppend(ab, s, F) ==
  LET ok == (ab.n + 1) \notin F
      new == IF ok THEN ab.b \o s ELSE ab.b
  IN  [b |-> new, n |-> ab.n + 1,
       log |-> Append(ab.log, [s |-> s, ok |-> ok, before |-> ab.b, after |-> new])]

RECURSIVE AppendSpaces(_, _, _)
AppendSpaces(ab, padding, F) ==
  IF padding <= 0 THEN ab ELSE AppendSpaces(abAppend(ab, <<SPACE>>, F), padding - 1, F)

\* faulty variant: the banner is not centred
WelcomeRowUncentred(ab, cols, F) ==
  LET welcomelen == IF Len(WELCOME) > cols THEN cols ELSE Len(WELCOME)
  IN  abAppend(ab, SubSeq(WELCOME, 1, welcomelen), F)

\* the content of the banner row
WelcomeRow(ab, cols, F) ==
  LET welcomelen == IF Len(WELCOME) > cols THEN cols ELSE Len(WELCOME)
      padding == CDiv(cols - welcomelen, 2)
      ab1 == IF padding # 0 THEN abAppend(ab, <<TILDE>>, F) ELSE ab
      pad1 == IF padding # 0 THEN padding - 1 ELSE padding
      ab2 == AppendSpaces(ab1, pad1, F)
  IN  abAppend(ab2, SubSeq(WELCOME, 1, welcomelen), F)

RECURSIVE DrawRowsFrom(_, _, _, _, _)
DrawRowsFrom(ab, y, rows, cols, F) ==
  IF ~(y < rows) THEN ab
  ELSE LET ab1 == IF y = CDiv(rows, 3) THEN WelcomeRow(ab, cols, F)
                  ELSE abAppend(ab, <<TILDE>>, F)
           ab2 == abAppend(ab1, EL, F)
           ab3 == IF y < rows - 1 THEN abAppend(ab2, CRLF, F) ELSE ab2
       IN  DrawRowsFrom(ab3, y + 1, rows, cols, F)

editorDrawRows(ab, e, F) == DrawRowsFrom(ab, 0, e.screenrows, e.screencols, F)

\* faulty variant: the cursor is shown before it is repositioned
RefreshBufferShowFirst(e, F) ==
  LET ab1 == abAppend(ABUF_INIT, CUR_HIDE, F)
      ab2 == abAppend(ab1, HOME, F)
      ab3 == editorDrawRows(ab2, e, F)
      pos == <<ESC, LBRACKET>> \o DecStr(e.cy + 1) \o <<SEMI>> \o DecStr(e.cx + 1) \o <<72>>
      ab4 == abAppend(ab3, CUR_SHOW, F)
  IN  abAppend(ab4, pos, F)

\* the buffer editorRefreshScreen has built when it calls write()
RefreshBuffer(e, F) ==
  LET ab1 == abAppend(ABUF_INIT, CUR_HIDE, F)
      ab2 == abAppend(ab1, HOME, F)
      ab3 == editorDrawRows(ab2, e, F)
      pos == <<ESC, LBRACKET>> \o DecStr(e.cy + 1) \o <<SEMI>> \o DecStr(e.cx + 1) \o <<72>>
      ab4 == abAppend(ab3, pos, F)
  IN  abAppend(ab4, CUR_SHOW, F)

(***************************************************************************)
(* The key decoder's and the cursor's pure parts.                          *)
(***************************************************************************)
\* faulty variant: the sequence is read but never mapped to an arrow key
DecodeSeqNoArrows(seq0, seq1) == ESC
\* faulty variant: the cases 'C' and 'D' exchanged
DecodeSeqSwapped(seq0, seq1) ==
  IF seq0 = LBRACKET
  THEN CASE seq1 = CH_A -> ARROW_UP
         [] seq1 = CH_B -> ARROW_DOWN
         [] seq1 = CH_C -> ARROW_LEFT
         [] seq1 = CH_D -> ARROW_RIGHT
         [] OTHER -> ESC
  ELSE ESC
\* the switch of editorReadKey on seq[0], seq[1]
DecodeSeq(seq0, seq1) ==
  IF seq0 = LBRACKET
  THEN CASE seq1 = CH_A -> ARROW_UP
         [] seq1 = CH_B -> ARROW_DOWN
         [] seq1 = CH_C -> ARROW_RIGHT
         [] seq1 = CH_D -> ARROW_LEFT
         [] OTHER -> ESC
  ELSE ESC

\* faulty variant: the right and bottom limits off by one
editorMoveCursorOffByOne(e, k) ==
  CASE k = ARROW_LEFT -> IF e.cx # 0 THEN [e EXCEPT !.cx = e.cx - 1] ELSE e
    [] k = ARROW_RIGHT -> IF e.cx # e.screencols THEN [e EXCEPT !.cx = e.cx + 1] ELSE e
    [] k = ARROW_UP -> IF e.cy # 0 THEN [e EXCEPT !.cy = e.cy - 1] ELSE e
    [] k = ARROW_DOWN -> IF e.cy # e.screenrows THEN [e EXCEPT !.cy = e.cy + 1] ELSE e
    [] OTHER -> e
\* faulty variant: ARROW_DOWN also moves the cursor one column to the right
editorMoveCursorDiagonal(e, k) ==
  CASE k = ARROW_LEFT -> IF e.cx # 0 THEN [e EXCEPT !.cx = e.cx - 1] ELSE e
    [] k = ARROW_RIGHT -> IF e.cx # e.screencols - 1 THEN [e EXCEPT !.cx = e.cx + 1] ELSE e
    [] k = ARROW_UP -> IF e.cy # 0 THEN [e EXCEPT !.cy = e.cy - 1] ELSE e
    [] k = ARROW_DOWN -> IF e.cy # e.screenrows - 1
                         THEN [e EXCEPT !.cy = e.cy + 1, !.cx = e.cx + 1] ELSE e
    [] OTHER -> e
\* editorMoveCursor(key), as a function of E
editorMoveCursor(e, k) ==
  CASE k = ARROW_LEFT -> IF e.cx # 0 THEN [e EXCEPT !.cx = e.cx - 1] ELSE e
    [] k = ARROW_RIGHT -> IF e.cx # e.screencols - 1 THEN [e EXCEPT !.cx = e.cx + 1] ELSE e
    [] k = ARROW_UP -> IF e.cy # 0 THEN [e EXCEPT !.cy = e.cy - 1] ELSE e
    [] k = ARROW_DOWN -> IF e.cy # e.screenrows - 1 THEN [e EXCEPT !.cy = e.cy + 1] ELSE e
    [] OTHER -> e

Arrows == {ARROW_UP, ARROW_DOWN, ARROW_LEFT, ARROW_RIGHT}

(***************************************************************************)
(* The environment's inputs.                                               *)
(***************************************************************************)
\* what the user can type: single bytes, and the arrow keys' sequences
KeyBytes == {CH_q, CTRL_Q, ESC}
ArrowSeqs == {<<ESC, LBRACKET, x>> : x \in {CH_A, CH_B, CH_C, CH_D}}
\* the Home key sends "\x1b[H", a sequence the decoder does not know
HomeSeq == <<ESC, LBRACKET, 72>>
Keystrokes == {<<b>> : b \in KeyBytes} \cup ArrowSeqs \cup {HomeSeq}

\* what the terminal may answer to the cursor-position query "\x1b[6n"
Report(r, c) == <<ESC, LBRACKET>> \o DecStr(r) \o <<SEMI>> \o DecStr(c) \o <<CH_R>>
Responses ==
  {Report(2, 3), Report(0, 3), Report(2, 0)}
  \cup {<<ESC, LBRACKET, 50, SEMI, CH_R>>, <<CH_q, CH_R>>, <<ESC, LBRACKET, 50, SEMI, 51>>}
  \cup {<<ESC, LBRACKET>> \o [i \in 1..(BUFSZ - 3) |-> CH_q]}

\* the bytes of s, each tagged with the number k of the keystroke it belongs
\* to (0: not a keystroke)
Tag(s, k) == [i \in 1..Len(s) |-> [b |-> s[i], k |-> k]]
Untag(ts) == [i \in 1..Len(ts) |-> ts[i].b]

(***************************************************************************)
(* State.                                                                  *)
(***************************************************************************)
VARIABLES
  pc,            \* where the process is
  E,             \* struct editorConfig E
  atexitN,       \* how many times disableRawMode is registered with atexit()
  exitStatus,    \* the status passed to exit(), -1 before
  gbuf,          \* getCursorPosition's buf[0..i-1]
  rk,            \* editorReadKey's c, seq[0], seq[1] read so far, and its reads
  key,           \* editorProcessKeypress's c
  term,          \* the terminal's attributes in effect
  wire,          \* bytes sent towards stdin, not yet readable
  avail,         \* bytes readable from stdin
  out,           \* the writes stdout has received, in order
  err,           \* what perror() printed: the names passed to die()
  A0,            \* history: the terminal's attributes at startup
  typed,         \* history: the keystrokes typed
  events,        \* history: what each editorReadKey call returned and consumed
  asked,         \* history: a cursor-position query awaits its answer
  nRawSet,       \* history: successful tcsetattr(raw)
  nRestoreCalls, \* history: calls of disableRawMode
  nRestored,     \* history: successful tcsetattr(orig_termios)
  calls,         \* history: the harness's calls
  pass,          \* history: the append buffer of the latest render pass
  geo,           \* history: what the latest geometry resolution saw and did
  faults         \* history: allocation failures and short writes so far

progVars == <<pc, E, atexitN, exitStatus, gbuf, rk, key>>
envVars == <<term, wire, avail, out, err>>
histVars == <<A0, typed, events, asked, nRawSet, nRestoreCalls, nRestored, calls>>
obsVars == <<pass, geo, faults>>
vars == <<pc, E, atexitN, exitStatus, gbuf, rk, key, term, wire, avail, out, err,
          A0, typed, events, asked, nRawSet, nRestoreCalls, nRestored, calls,
          pass, geo, faults>>

E_INIT == [cx |-> 0, cy |-> 0, screenrows |-> 0, screencols |-> 0,
           orig_termios |-> ZeroTermios]
RK_INIT == [bytes |-> <<>>, reads |-> 0]
\* primary: the outcome of the ioctl test ("none" before it); ws_row, ws_col:
\* what a successful ioctl reported; reads, taken: the read() calls of
\* getCursorPosition's loop and the bytes they returned; stop: why it ended
GEO_INIT == [primary |-> "none", ws_row |-> 0, ws_col |-> 0,
             reads |-> 0, taken |-> 0, stop |-> "none"]

InitAt(p, attrs) ==
  /\ pc = p
  /\ E = E_INIT
  /\ atexitN = 0
  /\ exitStatus = -1
  /\ gbuf = <<>>
  /\ rk = RK_INIT
  /\ key = 0
  /\ term \in attrs
  /\ wire = <<>>
  /\ avail = <<>>
  /\ out = <<>>
  /\ err = <<>>
  /\ A0 = term
  /\ typed = <<>>
  /\ events = <<>>
  /\ asked = FALSE
  /\ nRawSet = 0
  /\ nRestoreCalls = 0
  /\ nRestored = 0
  /\ calls = <<>>
  /\ pass = ABUF_INIT
  /\ geo = GEO_INIT
  /\ faults = 0

Init == InitAt("main", AttrSets)

(***************************************************************************)
(* die() and exit().                                                       *)
(***************************************************************************)
\* faulty variant: _exit(st), which runs no handler
exitNoHandlers(st) == pc' = "done" /\ exitStatus' = st
\* exit(st): the atexit handlers run next
exit(st) == pc' = "exit" /\ exitStatus' = st

die(s) ==
  /\ out' = out \o <<ED, HOME>>
  /\ err' = Append(err, s)
  /\ exit(1)

(***************************************************************************)
(* enableRawMode() and disableRawMode(), as called from position `at`,     *)
(* returning to position `ret`.                                            *)
(***************************************************************************)
\* tcgetattr() fails
enableRawMode_GetFail(at) ==
  /\ pc = at
  /\ die("tcgetattr")
  /\ UNCHANGED <<E, atexitN, gbuf, rk, key, term, wire, avail>>
  /\ UNCHANGED <<obsVars, A0, typed, events, asked, nRawSet, nRestoreCalls, nRestored>>

\* tcgetattr() succeeds, atexit() registers, tcsetattr(raw) fails
enableRawMode_SetFail(at) ==
  /\ pc = at
  /\ E' = [E EXCEPT !.orig_termios = term]
  /\ atexitN' = atexitN + 1
  /\ die("tcsetattr")
  /\ UNCHANGED <<gbuf, rk, key, term, wire, avail>>
  /\ UNCHANGED <<obsVars, A0, typed, events, asked, nRawSet, nRestoreCalls, nRestored>>

\* both succeed; TCSAFLUSH discards the unread input
enableRawMode_Ok(at, ret) ==
  /\ pc = at
  /\ E' = [E EXCEPT !.orig_termios = term]
  /\ atexitN' = atexitN + 1
  /\ term' = MakeRaw(E'.orig_termios)
  /\ avail' = <<>>
  /\ nRawSet' = nRawSet + 1
  /\ pc' = ret
  /\ UNCHANGED <<exitStatus, gbuf, rk, key, wire, out, err>>
  /\ UNCHANGED <<obsVars, A0, typed, events, asked, nRestoreCalls, nRestored>>

\* faulty variant: the saved attributes were modified in place
RestoredAttrsRaw == MakeRaw(E.orig_termios)
\* the attributes disableRawMode passes to tcsetattr()
RestoredAttrs == E.orig_termios

\* tcsetattr(orig_termios) succeeds
disableRawMode_Ok ==
  /\ term' = RestoredAttrs
  /\ avail' = <<>>
  /\ nRestoreCalls' = nRestoreCalls + 1
  /\ nRestored' = nRestored + 1
  /\ UNCHANGED <<E, gbuf, rk, key, wire, out, err>>
  /\ UNCHANGED <<obsVars, A0, typed, events, asked, nRawSet>>

\* tcsetattr(orig_termios) fails: die("tcsetattr") up to its call of exit(1)
disableRawMode_Fail ==
  /\ out' = out \o <<ED, HOME>>
  /\ err' = Append(err, "tcsetattr")
  /\ nRestoreCalls' = nRestoreCalls + 1
  /\ UNCHANGED <<E, gbuf, rk, key, term, wire, avail>>
  /\ UNCHANGED <<obsVars, A0, typed, events, asked, nRawSet, nRestored>>

(***************************************************************************)
(* Process exit: exit() runs the registered handlers, last registered      *)
(* first, then the process ends.                                           *)
(***************************************************************************)
\* the handler returns; after the last handler the process ends
AtExit_RestoreOk ==
  /\ pc = "exit"
  /\ atexitN > 0
  /\ disableRawMode_Ok
  /\ atexitN' = atexitN - 1
  /\ pc' = IF atexitN' = 0 THEN "done" ELSE "exit"
  /\ UNCHANGED <<exitStatus, calls>>

\* die() calls exit(1) from inside an atexit handler, which the C standard
\* leaves undefined: the C library either goes on with the remaining
\* handlers and ends with status 1, or the process aborts or hangs
AtExit_RestoreFail ==
  /\ pc = "exit"
  /\ atexitN > 0
  /\ disableRawMode_Fail
  /\ exitStatus' = 1
  /\ \E outcome \in {"continue", "crash"} :
       IF outcome = "continue"
       THEN /\ atexitN' = atexitN - 1
            /\ pc' = IF atexitN' = 0 THEN "done" ELSE "exit"
       ELSE pc' = "crashed" /\ atexitN' = atexitN
  /\ UNCHANGED calls

\* exit() with no handler registered
ExitDone ==
  /\ pc = "exit"
  /\ atexitN = 0
  /\ pc' = "done"
  /\ UNCHANGED <<E, atexitN, exitStatus, gbuf, rk, key>>
  /\ UNCHANGED <<envVars, histVars, obsVars>>

\* a signal from outside ends the process at once: no handler runs
Kill ==
  /\ pc \notin {"done", "killed", "crashed"}
  /\ pc' = "killed"
  /\ UNCHANGED <<E, atexitN, exitStatus, gbuf, rk, key>>
  /\ UNCHANGED <<envVars, histVars, obsVars>>

(***************************************************************************)
(* initEditor(), getWindowSize(), getCursorPosition().                     *)
(***************************************************************************)
\* ioctl(TIOCGWINSZ) succeeds and reports ws_col # 0
InitEditor_Primary ==
  /\ pc = "initEditor"
  /\ \E r \in 0..MaxRows, c \in 1..MaxCols :
       /\ E' = [E EXCEPT !.cx = 0, !.cy = 0, !.screenrows = r, !.screencols = c]
       /\ geo' = [geo EXCEPT !.primary = "ok", !.ws_row = r, !.ws_col = c]
  /\ pc' = "refresh"
  /\ UNCHANGED <<atexitN, exitStatus, gbuf, rk, key>>
  /\ UNCHANGED <<envVars, histVars, pass, faults>>

\* ioctl fails or reports ws_col = 0; the 12 bytes are written
InitEditor_Fallback ==
  /\ pc = "initEditor"
  /\ E' = [E EXCEPT !.cx = 0, !.cy = 0]
  /\ out' = Append(out, FARCORNER)
  /\ geo' = [geo EXCEPT !.primary = "failed"]
  /\ pc' = "gcp_query"
  /\ UNCHANGED <<atexitN, exitStatus, gbuf, rk, key, term, wire, avail, err>>
  /\ UNCHANGED <<histVars, pass, faults>>

\* ... or write() transfers fewer than 12 bytes: getWindowSize returns -1
InitEditor_FallbackWriteFail ==
  /\ pc = "initEditor"
  /\ E' = [E EXCEPT !.cx = 0, !.cy = 0]
  /\ \E n \in {0, 6} :
       /\ out' = (IF n = 0 THEN out ELSE Append(out, SubSeq(FARCORNER, 1, n))) \o <<ED, HOME>>
       /\ err' = Append(err, "getWindowSize")
       /\ exit(1)
  /\ geo' = [geo EXCEPT !.primary = "failed"]
  /\ UNCHANGED <<atexitN, gbuf, rk, key, term, wire, avail>>
  /\ UNCHANGED <<histVars, pass, faults>>

\* getCursorPosition writes the query
GCP_Query ==
  /\ pc = "gcp_query"
  /\ out' = Append(out, DSR)
  /\ gbuf' = <<>>
  /\ asked' = TRUE
  /\ geo' = [geo EXCEPT !.reads = 0, !.taken = 0, !.stop = "none"]
  /\ pc' = "gcp_read"
  /\ UNCHANGED <<E, atexitN, exitStatus, rk, key, term, wire, avail, err>>
  /\ UNCHANGED <<pass, faults, A0, typed, events, nRawSet, nRestoreCalls, nRestored, calls>>

\* ... or its write() transfers fewer than 4 bytes
GCP_QueryWriteFail ==
  /\ pc = "gcp_query"
  /\ \E n \in {0, 2} :
       /\ out' = (IF n = 0 THEN out ELSE Append(out, SubSeq(DSR, 1, n))) \o <<ED, HOME>>
       /\ err' = Append(err, "getWindowSize")
       /\ exit(1)
  /\ UNCHANGED <<E, atexitN, gbuf, rk, key, term, wire, avail>>
  /\ UNCHANGED <<histVars, obsVars>>

\* faulty variant: the two output parameters exchanged
GcpResultSwapped(b) ==
  LET p == Sscanf2(CStr(SubSeq(b, 3, Len(b))))
  IN  IF CAt(b, 1) # ESC \/ CAt(b, 2) # LBRACKET
      THEN [ret |-> -1, rowset |-> FALSE, rows |-> 0, colset |-> FALSE, cols |-> 0]
      ELSE [ret |-> IF p.n # 2 THEN -1 ELSE 0, rowset |-> p.colset, rows |-> p.cols,
            colset |-> p.rowset, cols |-> p.rows]
\* faulty variant: the test of buf[0] and buf[1] left out
GcpResultNoPrefixTest(b) ==
  LET p == Sscanf2(CStr(SubSeq(b, 3, Len(b))))
  IN  [ret |-> IF p.n # 2 THEN -1 ELSE 0, rowset |-> p.rowset, rows |-> p.rows,
       colset |-> p.colset, cols |-> p.cols]
\* what getCursorPosition returns for the bytes b read into buf:
\* buf[Len(b)] = '\0', the two checks, sscanf(&buf[2])
GcpResult(b) ==
  LET p == Sscanf2(CStr(SubSeq(b, 3, Len(b))))
  IN  IF CAt(b, 1) # ESC \/ CAt(b, 2) # LBRACKET
      THEN [ret |-> -1, rowset |-> FALSE, rows |-> 0, colset |-> FALSE, cols |-> 0]
      ELSE [ret |-> IF p.n # 2 THEN -1 ELSE 0, rowset |-> p.rowset, rows |-> p.rows,
            colset |-> p.colset, cols |-> p.cols]

\* the end of getCursorPosition's loop with the bytes b in buf, and the
\* return through getWindowSize to initEditor
GcpFinish(b) ==
  LET g == GcpResult(b)
  IN  /\ gbuf' = b
      /\ E' = [E EXCEPT !.screenrows = IF g.rowset THEN g.rows ELSE @,
                        !.screencols = IF g.colset THEN g.cols ELSE @]
      /\ IF g.ret = -1
         THEN die("getWindowSize")
         ELSE pc' = "refresh" /\ UNCHANGED <<out, err, exitStatus>>

\* faulty variant: the loop does not test i against sizeof(buf) - 1
GCP_ReadByteNoBudget ==
  /\ pc = "gcp_read"
  /\ avail # <<>>
  /\ avail' = Tail(avail)
  /\ IF Head(avail).b = CH_R
     THEN GcpFinish(gbuf)
     ELSE /\ gbuf' = Append(gbuf, Head(avail).b)
          /\ UNCHANGED <<pc, E, out, err, exitStatus>>
  /\ geo' = [geo EXCEPT !.reads = @ + 1, !.taken = @ + 1,
                        !.stop = IF Head(avail).b = CH_R THEN "R" ELSE @]
  /\ UNCHANGED <<atexitN, rk, key, term, wire>>
  /\ UNCHANGED <<histVars, pass, faults>>

\* one read() of the loop returns a byte
GCP_ReadByte ==
  /\ pc = "gcp_read"
  /\ Len(gbuf) < BUFSZ - 1
  /\ avail # <<>>
  /\ avail' = Tail(avail)
  /\ IF Head(avail).b = CH_R
     THEN GcpFinish(gbuf)
     ELSE /\ gbuf' = Append(gbuf, Head(avail).b)
          /\ UNCHANGED <<pc, E, out, err, exitStatus>>
  /\ geo' = [geo EXCEPT !.reads = @ + 1, !.taken = @ + 1,
                        !.stop = IF Head(avail).b = CH_R THEN "R" ELSE @]
  /\ UNCHANGED <<atexitN, rk, key, term, wire>>
  /\ UNCHANGED <<histVars, pass, faults>>

\* one read() of the loop returns no byte: the timeout expired
GCP_ReadTimeout ==
  /\ pc = "gcp_read"
  /\ Len(gbuf) < BUFSZ - 1
  /\ avail = <<>>
  /\ GcpFinish(gbuf)
  /\ geo' = [geo EXCEPT !.reads = @ + 1, !.stop = "empty"]
  /\ UNCHANGED <<atexitN, rk, key, term, wire, avail>>
  /\ UNCHANGED <<histVars, pass, faults>>

\* one read() of the loop fails
GCP_ReadError ==
  /\ pc = "gcp_read"
  /\ Len(gbuf) < BUFSZ - 1
  /\ GcpFinish(gbuf)
  /\ geo' = [geo EXCEPT !.reads = @ + 1, !.stop = "empty"]
  /\ UNCHANGED <<atexitN, rk, key, term, wire, avail>>
  /\ UNCHANGED <<histVars, pass, faults>>

\* the byte budget is used up
GCP_BufferFull ==
  /\ pc = "gcp_read"
  /\ ~(Len(gbuf) < BUFSZ - 1)
  /\ GcpFinish(gbuf)
  /\ geo' = [geo EXCEPT !.stop = "budget"]
  /\ UNCHANGED <<atexitN, rk, key, term, wire, avail>>
  /\ UNCHANGED <<histVars, pass, faults>>

\* the terminal answers the query
TerminalRespond ==
  /\ asked
  /\ pc = "gcp_read"
  /\ asked' = FALSE
  /\ \E r \in Responses : wire' = wire \o Tag(r, 0)
  /\ UNCHANGED progVars
  /\ UNCHANGED <<term, avail, out, err>>
  /\ UNCHANGED <<obsVars, A0, typed, events, nRawSet, nRestoreCalls, nRestored, calls>>

(***************************************************************************)
(* The editor loop: editorRefreshScreen(), editorReadKey(),                *)
(* editorProcessKeypress().                                                *)
(***************************************************************************)
\* which appends of a render pass fail (realloc returns NULL)
AllocFail == {{}}

editorRefreshScreen ==
  /\ pc = "refresh"
  /\ \E F \in AllocFail :
       /\ pass' = RefreshBuffer(E, F)
       /\ out' = Append(out, pass'.b)
  /\ rk' = RK_INIT
  /\ pc' = "rk_first"
  /\ UNCHANGED <<E, atexitN, exitStatus, gbuf, key, term, wire, avail, err>>
  /\ UNCHANGED <<histVars, geo, faults>>

\* editorReadKey returns k
ReadKeyReturn(k) ==
  /\ key' = k
  /\ events' = Append(events, [key |-> k, bytes |-> rk'.bytes, reads |-> rk'.reads])
  /\ pc' = "dispatch"

\* the read() of the while loop returns a byte
RK_First_Byte ==
  /\ pc = "rk_first"
  /\ avail # <<>>
  /\ avail' = Tail(avail)
  /\ rk' = [bytes |-> <<Head(avail)>>, reads |-> 0]
  /\ IF Head(avail).b = ESC
     THEN pc' = "rk_seq0" /\ UNCHANGED <<key, events>>
     ELSE ReadKeyReturn(CharToInt(Head(avail).b))
  /\ UNCHANGED <<E, atexitN, exitStatus, gbuf, term, wire, out, err>>
  /\ UNCHANGED <<obsVars, A0, typed, asked, nRawSet, nRestoreCalls, nRestored, calls>>

\* ... returns 0, or -1 with EAGAIN: the loop reads again
RK_First_Timeout ==
  /\ pc = "rk_first"
  /\ avail = <<>>
  /\ UNCHANGED vars

\* ... returns -1 with another errno
RK_First_Error ==
  /\ pc = "rk_first"
  /\ die("read")
  /\ UNCHANGED <<E, atexitN, gbuf, rk, key, term, wire, avail>>
  /\ UNCHANGED <<histVars, obsVars>>

\* the read() of seq[0] returns a byte
RK_Seq0_Byte ==
  /\ pc = "rk_seq0"
  /\ avail # <<>>
  /\ avail' = Tail(avail)
  /\ rk' = [bytes |-> Append(rk.bytes, Head(avail)), reads |-> rk.reads + 1]
  /\ pc' = "rk_seq1"
  /\ UNCHANGED <<E, atexitN, exitStatus, gbuf, key, term, wire, out, err>>
  /\ UNCHANGED <<histVars, obsVars>>

\* ... returns no byte within the timeout
RK_Seq0_Timeout ==
  /\ pc = "rk_seq0"
  /\ avail = <<>>
  /\ rk' = [rk EXCEPT !.reads = @ + 1]
  /\ ReadKeyReturn(ESC)
  /\ UNCHANGED <<E, atexitN, exitStatus, gbuf, term, wire, avail, out, err>>
  /\ UNCHANGED <<obsVars, A0, typed, asked, nRawSet, nRestoreCalls, nRestored, calls>>

\* ... fails
RK_Seq0_Error ==
  /\ pc = "rk_seq0"
  /\ rk' = [rk EXCEPT !.reads = @ + 1]
  /\ ReadKeyReturn(ESC)
  /\ UNCHANGED <<E, atexitN, exitStatus, gbuf, term, wire, avail, out, err>>
  /\ UNCHANGED <<obsVars, A0, typed, asked, nRawSet, nRestoreCalls, nRestored, calls>>

\* the read() of seq[1] returns a byte
RK_Seq1_Byte ==
  /\ pc = "rk_seq1"
  /\ avail # <<>>
  /\ avail' = Tail(avail)
  /\ rk' = [bytes |-> Append(rk.bytes, Head(avail)), reads |-> rk.reads + 1]
  /\ ReadKeyReturn(DecodeSeq(rk.bytes[2].b, Head(avail).b))
  /\ UNCHANGED <<E, atexitN, exitStatus, gbuf, term, wire, out, err>>
  /\ UNCHANGED <<obsVars, A0, typed, asked, nRawSet, nRestoreCalls, nRestored, calls>>

\* ... returns no byte within the timeout
RK_Seq1_Timeout ==
  /\ pc = "rk_seq1"
  /\ avail = <<>>
  /\ rk' = [rk EXCEPT !.reads = @ + 1]
  /\ ReadKeyReturn(ESC)
  /\ UNCHANGED <<E, atexitN, exitStatus, gbuf, term, wire, avail, out, err>>
  /\ UNCHANGED <<obsVars, A0, typed, asked, nRawSet, nRestoreCalls, nRestored, calls>>

\* ... fails
RK_Seq1_Error ==
  /\ pc = "rk_seq1"
  /\ rk' = [rk EXCEPT !.reads = @ + 1]
  /\ ReadKeyReturn(ESC)
  /\ UNCHANGED <<E, atexitN, exitStatus, gbuf, term, wire, avail, out, err>>
  /\ UNCHANGED <<obsVars, A0, typed, asked, nRawSet, nRestoreCalls, nRestored, calls>>

\* faulty variant: exit without clearing the screen
Dispatch_QuitNoClear ==
  /\ pc = "dispatch"
  /\ key = CTRL_KEY(CH_q)
  /\ exit(0)
  /\ UNCHANGED <<E, atexitN, gbuf, rk, key, term, wire, avail, out, err>>
  /\ UNCHANGED <<histVars, obsVars>>
\* case CTRL_KEY('q')
Dispatch_Quit ==
  /\ pc = "dispatch"
  /\ key = CTRL_KEY(CH_q)
  /\ out' = out \o <<ED, HOME>>
  /\ exit(0)
  /\ UNCHANGED <<E, atexitN, gbuf, rk, key, term, wire, avail, err>>
  /\ UNCHANGED <<histVars, obsVars>>

\* case ARROW_UP, ARROW_DOWN, ARROW_LEFT, ARROW_RIGHT
Dispatch_Move ==
  /\ pc = "dispatch"
  /\ key \in Arrows
  /\ E' = editorMoveCursor(E, key)
  /\ pc' = "refresh"
  /\ UNCHANGED <<atexitN, exitStatus, gbuf, rk, key>>
  /\ UNCHANGED <<envVars, histVars, obsVars>>

\* faulty variant: the loop reads the next key without refreshing the screen
Dispatch_OtherNoRefresh ==
  /\ pc = "dispatch"
  /\ key # CTRL_KEY(CH_q)
  /\ key \notin Arrows
  /\ pc' = "rk_first"
  /\ UNCHANGED <<E, atexitN, exitStatus, gbuf, rk, key>>
  /\ UNCHANGED <<envVars, histVars, obsVars>>
\* no case of the switch matches
Dispatch_Other ==
  /\ pc = "dispatch"
  /\ key # CTRL_KEY(CH_q)
  /\ key \notin Arrows
  /\ pc' = "refresh"
  /\ UNCHANGED <<E, atexitN, exitStatus, gbuf, rk, key>>
  /\ UNCHANGED <<envVars, histVars, obsVars>>

(***************************************************************************)
(* The user and the line to stdin.                                         *)
(***************************************************************************)
LoopPcs == {"refresh", "rk_first", "rk_seq0", "rk_seq1", "dispatch"}

\* the user types one keystroke while the editor loop runs; the line is a
\* FIFO, so the bytes of a keystroke become readable only after all bytes of
\* the keystrokes before it: it changes nothing the program can observe to
\* let a keystroke enter the line once the line has emptied
Type ==
  /\ pc \in LoopPcs
  /\ Len(typed) < MaxKeys
  /\ wire = <<>>
  /\ \E ks \in Keystrokes :
       /\ typed' = Append(typed, ks)
       /\ wire' = wire \o Tag(ks, Len(typed) + 1)
  /\ UNCHANGED progVars
  /\ UNCHANGED <<term, avail, out, err>>
  /\ UNCHANGED <<obsVars, A0, events, asked, nRawSet, nRestoreCalls, nRestored, calls>>

\* the next byte on the line becomes readable
Arrive ==
  /\ pc \in LoopPcs \cup {"gcp_read"}
  /\ wire # <<>>
  /\ wire' = Tail(wire)
  /\ avail' = Append(avail, Head(wire))
  /\ UNCHANGED progVars
  /\ UNCHANGED <<term, out, err>>
  /\ UNCHANGED <<histVars, obsVars>>

(***************************************************************************)
(* The program: main().                                                    *)
(***************************************************************************)
Main_EnableRawMode_GetFail == enableRawMode_GetFail("main") /\ UNCHANGED calls
Main_EnableRawMode_SetFail == enableRawMode_SetFail("main") /\ UNCHANGED calls
Main_EnableRawMode_Ok == enableRawMode_Ok("main", "initEditor") /\ UNCHANGED calls

Next ==
  \/ Main_EnableRawMode_GetFail
  \/ Main_EnableRawMode_SetFail
  \/ Main_EnableRawMode_Ok
  \/ InitEditor_Primary
  \/ InitEditor_Fallback
  \/ InitEditor_FallbackWriteFail
  \/ GCP_Query
  \/ GCP_QueryWriteFail
  \/ GCP_ReadByte
  \/ GCP_ReadTimeout
  \/ GCP_ReadError
  \/ GCP_BufferFull
  \/ TerminalRespond
  \/ editorRefreshScreen
  \/ RK_First_Byte
  \/ RK_First_Timeout
  \/ RK_First_Error
  \/ RK_Seq0_Byte
  \/ RK_Seq0_Timeout
  \/ RK_Seq0_Error
  \/ RK_Seq1_Byte
  \/ RK_Seq1_Timeout
  \/ RK_Seq1_Error
  \/ Dispatch_Quit
  \/ Dispatch_Move
  \/ Dispatch_Other
  \/ Type
  \/ Arrive
  \/ AtExit_RestoreOk
  \/ AtExit_RestoreFail
  \/ ExitDone

Spec == Init /\ [][Next]_vars

\* the program, and a signal that may end it at any moment
NextK == Next \/ Kill
SpecK == Init /\ [][NextK]_vars

(***************************************************************************)
(* The terminal mode controller on its own: a client that calls            *)
(* enableRawMode() and disableRawMode() in any order, at most MaxCalls     *)
(* times, and then returns from main; a signal may end it at any moment.   *)
(***************************************************************************)
InitTMC == InitAt("api", HarnessAttrs \cup {CookedAttrs, SevenBitAttrs})

CanCall == pc = "api" /\ Len(calls) < MaxCalls

TMC_Enter_GetFail ==
  /\ CanCall
  /\ enableRawMode_GetFail("api")
  /\ calls' = Append(calls, "enter")

TMC_Enter_SetFail ==
  /\ CanCall
  /\ enableRawMode_SetFail("api")
  /\ calls' = Append(calls, "enter")

TMC_Enter_Ok ==
  /\ CanCall
  /\ enableRawMode_Ok("api", "api")
  /\ calls' = Append(calls, "enter")

TMC_Exit_Ok ==
  /\ CanCall
  /\ disableRawMode_Ok
  /\ calls' = Append(calls, "exit")
  /\ UNCHANGED <<pc, atexitN, exitStatus>>

TMC_Exit_Fail ==
  /\ CanCall
  /\ disableRawMode_Fail
  /\ exit(1)
  /\ calls' = Append(calls, "exit")
  /\ UNCHANGED atexitN

\* the client returns from main: exit(0)
TMC_Return ==
  /\ pc = "api"
  /\ exit(0)
  /\ UNCHANGED <<E, atexitN, gbuf, rk, key>>
  /\ UNCHANGED <<envVars, histVars, obsVars>>

NextTMC ==
  \/ TMC_Enter_GetFail
  \/ TMC_Enter_SetFail
  \/ TMC_Enter_Ok
  \/ TMC_Exit_Ok
  \/ TMC_Exit_Fail
  \/ TMC_Return
  \/ AtExit_RestoreOk
  \/ AtExit_RestoreFail
  \/ ExitDone
  \/ Kill

SpecTMC == InitTMC /\ [][NextTMC]_vars

\* the state main() is in when enableRawMode() has returned
InitAfterRawMode(p) ==
  /\ pc = p
  /\ atexitN = 1
  /\ exitStatus = -1
  /\ gbuf = <<>>
  /\ rk = RK_INIT
  /\ key = 0
  /\ term = MakeRaw(CookedAttrs)
  /\ wire = <<>>
  /\ avail = <<>>
  /\ out = <<>>
  /\ err = <<>>
  /\ A0 = CookedAttrs
  /\ typed = <<>>
  /\ events = <<>>
  /\ asked = FALSE
  /\ nRawSet = 1
  /\ nRestoreCalls = 0
  /\ nRestored = 0
  /\ calls = <<>>
  /\ pass = ABUF_INIT
  /\ faults = 0

(***************************************************************************)
(* The geometry resolver on its own: initEditor() as main() calls it, with *)
(* a terminal that answers the cursor-position query in more ways; the run *)
(* ends when initEditor() returns or the process has exited.               *)
(***************************************************************************)
\* replies of the form ESC [ r ; c R
WellFormed == {Report(r, c) : r \in {0, 2, 24}, c \in {0, 3, 80}}
\* replies sscanf also accepts: white space and signs before the numbers,
\* bytes after them, and a reply cut short before its 'R'
Tolerated ==
  {<<ESC, LBRACKET, SPACE, 50, SEMI, PLUS, 51, CH_R>>,
   <<ESC, LBRACKET, 50, SEMI, 51, CH_q, CH_R>>,
   <<ESC, LBRACKET, 50, 52, SEMI, 56>>}
\* replies that lack the leading ESC [ or one of the two numbers
Garbled ==
  {<<CH_q, CH_R>>,
   <<ESC, 79, 50, SEMI, 51, CH_R>>,
   <<ESC, LBRACKET, CH_R>>,
   <<ESC, LBRACKET, 50, SEMI, CH_R>>,
   <<ESC, LBRACKET, SEMI, 51, CH_R>>,
   <<ESC, LBRACKET, 50, CH_q, SEMI, 51, CH_R>>,
   <<ESC, LBRACKET, 50, SEMI, MINUS, CH_R>>}
\* a stream of bytes with no 'R', longer than the buffer
Endless ==
  {<<ESC, LBRACKET>> \o [i \in 1..(BUFSZ + MaxExtra - 2) |-> CH_q],
   <<ESC, LBRACKET, 50, SEMI, 51>> \o [i \in 1..(BUFSZ + MaxExtra - 5) |-> CH_q]}
ResponsesG == WellFormed \cup Tolerated \cup Garbled \cup Endless

\* the terminal answers the query
TerminalRespond_Any ==
  /\ asked
  /\ pc = "gcp_read"
  /\ asked' = FALSE
  /\ \E r \in ResponsesG : wire' = wire \o Tag(r, 0)
  /\ UNCHANGED progVars
  /\ UNCHANGED <<term, avail, out, err>>
  /\ UNCHANGED <<obsVars, A0, typed, events, nRawSet, nRestoreCalls, nRestored, calls>>

InitG ==
  /\ InitAfterRawMode("initEditor")
  /\ E = [E_INIT EXCEPT !.orig_termios = CookedAttrs]
  /\ geo = GEO_INIT

NextG ==
  \/ InitEditor_Primary
  \/ InitEditor_Fallback
  \/ InitEditor_FallbackWriteFail
  \/ GCP_Query
  \/ GCP_QueryWriteFail
  \/ GCP_ReadByte
  \/ GCP_ReadTimeout
  \/ GCP_ReadError
  \/ GCP_BufferFull
  \/ TerminalRespond_Any
  \/ Arrive
  \/ AtExit_RestoreOk
  \/ AtExit_RestoreFail

SpecG == InitG /\ [][NextG]_vars

(***************************************************************************)
(* The renderer on its own: the editor loop from the first refresh on,     *)
(* with a key decoder that delivers one arrow event after the first frame, *)
(* a heap whose realloc() may fail and a stdout whose write() may transfer *)
(* fewer bytes than asked.                                                 *)
(***************************************************************************)
\* the screen widths of the renderer's runs: narrow ones, and the widths
\* around the banner's length
ColsR == (1..MaxCols) \cup ((Len(WELCOME) - 1)..(Len(WELCOME) + MaxPadCols))

\* initEditor() has returned with the size the ioctl reported
InitR ==
  /\ InitAfterRawMode("refresh")
  /\ E \in {[E_INIT EXCEPT !.orig_termios = CookedAttrs, !.screenrows = r, !.screencols = c] :
              r \in 0..MaxRowsR, c \in ColsR}
  /\ geo = [GEO_INIT EXCEPT !.primary = "ok", !.ws_row = E.screenrows, !.ws_col = E.screencols]

\* the sets of at most k of the append attempts 1..n
RECURSIVE FailSets(_, _)
FailSets(n, k) ==
  IF k <= 0 THEN {{}}
  ELSE LET S == FailSets(n, k - 1) IN S \cup {F \cup {a} : F \in S, a \in 1..n}

\* the byte counts a short write() of len bytes may transfer (a failed
\* write transfers none)
ShortCounts(len) == {n \in {0, len - 1} : n >= 0 /\ n < len}

\* editorRefreshScreen() when realloc() and write() may fail
editorRefreshScreen_Faulty ==
  /\ pc = "refresh"
  /\ \E F \in FailSets(RefreshBuffer(E, {}).n, MaxFaults - faults) :
       LET ab == RefreshBuffer(E, F)
           left == MaxFaults - faults - Cardinality(F)
       IN  \E n \in {Len(ab.b)} \cup (IF left > 0 THEN ShortCounts(Len(ab.b)) ELSE {}) :
             /\ pass' = ab
             /\ out' = Append(out, SubSeq(ab.b, 1, n))
             /\ faults' = faults + Cardinality(F) + (IF n < Len(ab.b) THEN 1 ELSE 0)
  /\ rk' = RK_INIT
  /\ pc' = "rk_first"
  /\ UNCHANGED <<E, atexitN, exitStatus, gbuf, key, term, wire, avail, err>>
  /\ UNCHANGED <<histVars, geo>>

\* editorProcessKeypress() with an arrow event from editorReadKey(), once,
\* after the first frame; the cursor is at the origin, where the other two
\* arrows change nothing
Render_ArrowKey ==
  /\ pc = "rk_first"
  /\ Len(out) = 1
  /\ \E k \in {ARROW_RIGHT, ARROW_DOWN} :
       /\ key' = k
       /\ E' = editorMoveCursor(E, k)
  /\ pc' = "refresh"
  /\ UNCHANGED <<atexitN, exitStatus, gbuf, rk>>
  /\ UNCHANGED <<envVars, histVars, obsVars>>

NextR == editorRefreshScreen_Faulty \/ Render_ArrowKey
SpecR == InitR /\ [][NextR]_vars

(***************************************************************************)
(* Properties.                                                             *)
(***************************************************************************)
Range(s) == {s[i] : i \in 1..Len(s)}
\* the bytes the i-th editorReadKey call consumed
EventBytes(i) == Untag(events[i].bytes)
\* a read() of the call that returned event i came back without a byte
EmptyRead(i) == events[i].reads >= Len(events[i].bytes)
\* event i is a single byte returned as a literal character
Literal(i) == Len(events[i].bytes) = 1 /\ events[i].key = events[i].bytes[1].b
\* initEditor has returned
Initialized == pc \in LoopPcs
\* the terminal attributes have been captured by enableRawMode
Captured == E.orig_termios # E_INIT.orig_termios
\* the process has ended through exit()
Exited == pc \in {"done", "crashed"}

\* C1: after initialization 0 <= cx < screencols and 0 <= cy < screenrows, for
\* every geometry the resolver returns and every sequence of key events.
C1_CursorInBounds ==
  Initialized =>
    /\ 0 <= E.cx /\ E.cx < E.screencols
    /\ 0 <= E.cy /\ E.cy < E.screenrows

\* the event the specification assigns to a keystroke
ExpectedEvent(ks) ==
  CASE ks = <<ESC, LBRACKET, CH_A>> -> ARROW_UP
    [] ks = <<ESC, LBRACKET, CH_B>> -> ARROW_DOWN
    [] ks = <<ESC, LBRACKET, CH_C>> -> ARROW_RIGHT
    [] ks = <<ESC, LBRACKET, CH_D>> -> ARROW_LEFT
    [] OTHER -> ks[1]
\* the input is made of plain bytes and complete arrow sequences only
PlainOrArrowInput ==
  /\ \A i \in 1..Len(typed) : typed[i] \in ArrowSeqs \/ (Len(typed[i]) = 1 /\ typed[i][1] # ESC)
  /\ \A i \in 1..Len(events) : \A j \in 1..Len(events[i].bytes) : events[i].bytes[j].k # 0
  /\ \A j \in 1..Len(rk.bytes) : rk.bytes[j].k # 0
\* event i is the whole of keystroke i and nothing else, decoded as specified
OneEventPerKeystroke ==
  \A i \in 1..Len(events) :
    /\ i <= Len(typed)
    /\ EventBytes(i) = typed[i]
    /\ \A j \in 1..Len(events[i].bytes) : events[i].bytes[j].k = i
    /\ events[i].key = ExpectedEvent(typed[i])

\* C2 as claimed: whatever the timing of the reads, also with a timeout
\* between the bytes of one arrow sequence, every keystroke of an input of
\* plain bytes and arrow sequences is delivered as exactly one event, in order.
C2_OneEventAnyTiming == PlainOrArrowInput => OneEventPerKeystroke

\* C2 as amended: the same, provided no read() after the first byte of a
\* call came back empty, that is, no timeout fell between the bytes of one
\* arrow sequence; timeouts between keystrokes are allowed.
C2_OneEventUnsplit ==
  (PlainOrArrowInput /\ \A i \in 1..Len(events) : ~EmptyRead(i)) => OneEventPerKeystroke

C2_Witness ==
  /\ PlainOrArrowInput
  /\ Len(events) = 2
  /\ events[1].key = ARROW_DOWN
  /\ events[2].key = CH_q
  /\ \A i \in 1..Len(events) : ~EmptyRead(i)

NextFromIdle(i) ==
  (i + 1 <= Len(events)) =>
    IF events[i + 1].bytes[1].b # ESC
    THEN Literal(i + 1)
    ELSE events[i + 1].key \in Arrows \cup {ESC}

\* C4: three bytes 0x1b '[' X read without a timeout give exactly one event,
\* up/down/right/left for X = A/B/C/D and bare escape for any other X; a call
\* never consumes more than three bytes, it stops short of three only after
\* an empty read, and the next call starts from Idle.
C4_ThreeByteSequence ==
  \A i \in 1..Len(events) :
    /\ Len(events[i].bytes) <= 3
    /\ (events[i].bytes[1].b = ESC /\ Len(events[i].bytes) < 3) => EmptyRead(i)
    /\ (Len(events[i].bytes) = 3 /\ events[i].bytes[2].b = LBRACKET) =>
         /\ events[i].reads = 2
         /\ events[i].key = (CASE events[i].bytes[3].b = CH_A -> ARROW_UP
                               [] events[i].bytes[3].b = CH_B -> ARROW_DOWN
                               [] events[i].bytes[3].b = CH_C -> ARROW_RIGHT
                               [] events[i].bytes[3].b = CH_D -> ARROW_LEFT
                               [] OTHER -> ESC)
         /\ NextFromIdle(i)

C4_Witness ==
  /\ Len(events) = 2
  /\ EventBytes(1) = HomeSeq /\ events[1].key = ESC
  /\ EventBytes(2) = <<ESC, LBRACKET, CH_C>> /\ events[2].key = ARROW_RIGHT

\* C5: a lone 0x1b followed by a read that returns no byte gives exactly one
\* bare-escape event after one further read; reads in the loop return within
\* the timeout raw mode sets (VMIN = 0, VTIME = 1), a call makes at most two
\* reads after its first byte, and the next call starts from Idle.
C5_LoneEscape ==
  /\ pc \in {"rk_first", "rk_seq0", "rk_seq1"} =>
       /\ term.c_cc["VMIN"] = 0 /\ term.c_cc["VTIME"] = 1
       /\ rk.reads <= 2
  /\ \A i \in 1..Len(events) :
       /\ events[i].reads <= 2
       /\ EventBytes(i) = <<ESC>> =>
            /\ events[i].key = ESC
            /\ events[i].reads = 1
            /\ NextFromIdle(i)

C5_Witness ==
  /\ Len(events) = 2
  /\ EventBytes(1) = <<ESC>> /\ events[1].key = ESC /\ events[1].reads = 1
  /\ EventBytes(2) = <<LBRACKET>> /\ events[2].key = LBRACKET
  /\ typed[1] = <<ESC, LBRACKET, CH_A>>

\* the last two writes made before disableRawMode's own die() wrote anything
\* are the erase-display and the cursor-home sequence
ClearWrittenLast ==
  LET n == Len(out) - 2 * (nRestoreCalls - nRestored)
  IN  n >= 2 /\ out[n - 1] = ED /\ out[n] = HOME

AtBoundary(k) ==
  \/ k = ARROW_LEFT /\ E.cx = 0
  \/ k = ARROW_RIGHT /\ E.cx = E.screencols - 1
  \/ k = ARROW_UP /\ E.cy = 0
  \/ k = ARROW_DOWN /\ E.cy = E.screenrows - 1

\* C7: dispatching a movement event at the boundary it moves towards leaves
\* the editor state unchanged, however often it is repeated.
C7_BoundaryNoOp ==
  [][(pc = "dispatch" /\ pc' = "refresh" /\ AtBoundary(key)) => E' = E]_vars

C7_Witness ==
  /\ pc = "refresh"
  /\ Len(events) = 2
  /\ events[1].key = ARROW_RIGHT
  /\ events[2].key = ARROW_RIGHT
  /\ E.screencols = 2
  /\ E.cx = 1

\* C8: enableRawMode() followed by disableRawMode() (called directly or run
\* at exit) leaves the terminal with the attribute set it had at startup.
C8_RoundTrip ==
  (/\ calls # <<>>
   /\ calls[1] = "enter"
   /\ \A i \in 2..Len(calls) : calls[i] = "exit"
   /\ nRawSet = 1
   /\ nRestored >= 1) => term = A0

C8_Witness ==
  /\ calls = <<"enter", "exit">>
  /\ pc = "api"
  /\ nRawSet = 1
  /\ nRestored = 1
  /\ A0 = SevenBitAttrs
  /\ term = A0
  /\ MakeRaw(A0) # A0

C10_ExitRawModeSafe ==
  [][(TMC_Exit_Ok /\ ("enter" \notin Range(calls) \/ calls[Len(calls)] = "exit"))
       => term' = term]_vars

\* n space characters
Spaces(n) == [i \in 1..n |-> SPACE]
\* the banner as a screen of cols columns shows it
BannerText(cols) == SubSeq(WELCOME, 1, IF Len(WELCOME) < cols THEN Len(WELCOME) ELSE cols)
\* the left padding of the banner: the margin marker and spaces
BannerPad(cols) == (cols - Len(BannerText(cols))) \div 2
\* the content the specification gives row y of a rows x cols screen
RowContent(y, rows, cols) ==
  IF y = rows \div 3
  THEN (IF BannerPad(cols) > 0 THEN <<TILDE>> \o Spaces(BannerPad(cols) - 1) ELSE <<>>)
       \o BannerText(cols)
  ELSE <<TILDE>>
\* rows y..rows-1, each followed by erase-to-end-of-line, separated by CR LF
RECURSIVE RowsFrom(_, _, _)
RowsFrom(y, rows, cols) ==
  IF y >= rows THEN <<>>
  ELSE RowContent(y, rows, cols) \o EL \o (IF y < rows - 1 THEN CRLF ELSE <<>>)
       \o RowsFrom(y + 1, rows, cols)
\* the cursor-reposition sequence for the 1-based position (row, col)
CursorTo(row, col) == <<ESC, LBRACKET>> \o DecStr(row) \o <<SEMI>> \o DecStr(col) \o <<72>>
\* the complete frame of editor state e
CompleteFrame(e) ==
  CUR_HIDE \o HOME \o RowsFrom(0, e.screenrows, e.screencols)
  \o CursorTo(e.cy + 1, e.cx + 1) \o CUR_SHOW
\* a refresh has just returned
Refreshed == pc = "rk_first" /\ pass.n > 0

\* C11: after any refresh the output device has received, for that render
\* pass, either the complete frame or nothing, also when appends failed or
\* the write was short.
C11_NoPartialFrame ==
  Refreshed => out[Len(out)] \in {<<>>, CompleteFrame(E)}

\* the pieces of the latest pass, in the order of the append calls
Pieces == [i \in 1..Len(pass.log) |-> pass.log[i].s]
\* the concatenation of the byte strings of ss
RECURSIVE Concat(_)
Concat(ss) == IF ss = <<>> THEN <<>> ELSE Head(ss) \o Concat(Tail(ss))
\* s starts with p
IsPrefix(p, s) == Len(p) <= Len(s) /\ SubSeq(s, 1, Len(p)) = p

\* what C12 says of the pass just made
FrameStaged ==
  Refreshed =>
    /\ pass.n >= 4
    /\ Pieces[1] = CUR_HIDE
    /\ Pieces[2] = HOME
    /\ Pieces[pass.n - 1] = CursorTo(E.cy + 1, E.cx + 1)
    /\ Pieces[pass.n] = CUR_SHOW
    /\ Concat(Pieces) = CompleteFrame(E)
    /\ IsPrefix(out[Len(out)], pass.b)
    /\ (\A i \in 1..pass.n : pass.log[i].ok) => pass.b = CompleteFrame(E)

RECURSIVE UpToEsc(_, _)
UpToEsc(s, i) ==
  IF i > Len(s) \/ s[i] = ESC THEN <<>> ELSE <<s[i]>> \o UpToEsc(s, i + 1)
\* the visible contents of the rows of the frame f that start at position i:
\* each runs up to its erase-to-end-of-line sequence; a separator follows
\* all but the last
RECURSIVE VisibleRowsFrom(_, _)
VisibleRowsFrom(f, i) ==
  LET c == UpToEsc(f, i)
      j == i + Len(c)
  IN  IF j + Len(EL) - 1 <= Len(f) /\ SubSeq(f, j, j + Len(EL) - 1) = EL
      THEN IF j + Len(EL) + 1 <= Len(f) /\ SubSeq(f, j + Len(EL), j + Len(EL) + 1) = CRLF
           THEN <<c>> \o VisibleRowsFrom(f, j + Len(EL) + 2)
           ELSE <<c>>
      ELSE <<>>
VisibleRows(f) == VisibleRowsFrom(f, Len(CUR_HIDE) + Len(HOME) + 1)
\* the first frame of a run in which nothing has failed
FreshFrame == Refreshed /\ Len(out) = 1 /\ faults = 0

\* C13: on a screen of rows >= 1 by cols >= 1 the first frame has the
\* banner on row rows/3 only, after (cols - bannerlen)/2 characters of left
\* padding and cut to at most cols characters; every other row is exactly
\* one margin marker; the frame ends with the cursor at (1,1) and shown.
C13_BannerRow ==
  (FreshFrame /\ E.screenrows >= 1 /\ E.screencols >= 1) =>
    LET vis == VisibleRows(out[1])
        b == vis[E.screenrows \div 3 + 1]
        t == BannerText(E.screencols)
        pad == (E.screencols - Len(t)) \div 2
    IN  /\ Len(vis) = E.screenrows
        /\ \A y \in 0..(E.screenrows - 1) : y # E.screenrows \div 3 => vis[y + 1] = <<TILDE>>
        /\ Len(b) <= E.screencols
        /\ Len(t) >= 1
        /\ Len(b) = pad + Len(t)
        /\ SubSeq(b, pad + 1, Len(b)) = t
        /\ \A i \in 1..pad : b[i] = (IF i = 1 THEN TILDE ELSE SPACE)
        /\ IsPrefix(CUR_HIDE \o HOME, out[1])
        /\ SubSeq(out[1], Len(out[1]) - Len(CursorTo(1, 1) \o CUR_SHOW) + 1, Len(out[1]))
             = CursorTo(1, 1) \o CUR_SHOW

C13_Witness ==
  /\ FreshFrame
  /\ E.screenrows = 3
  /\ E.screencols = Len(WELCOME) + 4
  /\ VisibleRows(out[1]) = <<(<<TILDE>>), (<<TILDE, SPACE>> \o WELCOME), (<<TILDE>>)>>

\* the pieces of the latest pass whose append succeeded, in order
RECURSIVE Appended(_)
Appended(log) ==
  IF log = <<>> THEN <<>>
  ELSE (IF Head(log).ok THEN <<Head(log).s>> ELSE <<>>) \o Appended(Tail(log))

\* C20: a successful append leaves the old content followed by the bytes,
\* the length grown by their number; a failed one leaves content and length
\* unchanged and the pass goes on with the next append; after a pass the
\* buffer is the concatenation of the pieces appended with success, in
\* order; each pass starts from an empty buffer.
C20_AppendContract ==
  pass.n > 0 =>
    /\ pass.n = Len(pass.log)
    /\ pass.log[1].before = <<>>
    /\ \A i \in 1..pass.n :
         /\ pass.log[i].ok =>
              /\ pass.log[i].after = pass.log[i].before \o pass.log[i].s
              /\ Len(pass.log[i].after) = Len(pass.log[i].before) + Len(pass.log[i].s)
         /\ ~pass.log[i].ok => pass.log[i].after = pass.log[i].before
         /\ i > 1 => pass.log[i].before = pass.log[i - 1].after
    /\ pass.b = pass.log[pass.n].after
    /\ pass.b = Concat(Appended(pass.log))
    /\ Refreshed => Concat(Pieces) = CompleteFrame(E)

C20_Witness ==
  /\ Refreshed
  /\ Len(out) = 2
  /\ out[1] # CompleteFrame([E EXCEPT !.cx = 0, !.cy = 0])
  /\ ~pass.log[3].ok
  /\ pass.log[4].ok
  /\ pass.b # CompleteFrame(E)
  /\ out[2] = pass.b

\* initEditor() has returned
Resolved == pc = "refresh"
\* the fallback's response-reading loop has ended
LoopEnded == geo.primary = "failed" /\ geo.stop # "none"

\* C14: a primary query that fails or reports no columns is followed by the
\* write of the cursor motions and then of the cursor-position query, and
\* every reply ESC [ r ; c R read gives rows = r and cols = c; a primary
\* query that succeeds with columns gives the reported rows and columns and
\* writes nothing.
C14_ResolverResult ==
  /\ geo.primary = "ok" =>
       /\ geo.ws_col # 0
       /\ Resolved
       /\ E.screenrows = geo.ws_row /\ E.screencols = geo.ws_col
       /\ out = <<>>
  /\ (geo.primary = "failed" /\ pc = "gcp_query") => out = <<FARCORNER>>
  /\ (geo.primary = "failed" /\ (pc = "gcp_read" \/ Resolved)) => out = <<FARCORNER, DSR>>
  /\ \A r \in {0, 2, 24}, c \in {0, 3, 80} :
       (LoopEnded /\ geo.stop = "R" /\ gbuf \o <<CH_R>> = Report(r, c)) =>
         /\ Resolved
         /\ E.screenrows = r /\ E.screencols = c

C14_Witness ==
  /\ Resolved
  /\ geo.primary = "failed"
  /\ geo.stop = "R"
  /\ gbuf = <<ESC, LBRACKET, 50, 52, SEMI, 56, 48>>
  /\ E.screenrows = 24
  /\ E.screencols = 80

\* t is an optional run of white space, an optional sign and then digits
\* only, at least one
RECURSIVE IsNumber(_)
IsNumber(t) ==
  /\ t # <<>>
  /\ IF IsSpace(Head(t)) THEN IsNumber(Tail(t))
     ELSE LET d == IF Head(t) \in {PLUS, MINUS} THEN Tail(t) ELSE t
          IN  d # <<>> /\ \A i \in 1..Len(d) : IsDigit(d[i])
\* t starts with such a number
StartsWithNumber(t) == \E n \in 1..Len(t) : IsNumber(SubSeq(t, 1, n))
\* the bytes b read are no reply whose two numbers can be parsed
Malformed(b) ==
  \/ Len(b) < 2
  \/ b[1] # ESC
  \/ b[2] # LBRACKET
  \/ ~\E i \in 3..Len(b) :
        /\ b[i] = SEMI
        /\ IsNumber(SubSeq(b, 3, i - 1))
        /\ StartsWithNumber(SubSeq(b, i + 1, Len(b)))
\* the fallback strategy has failed: one of its writes was short, or the
\* bytes read are malformed
FallbackFailed ==
  \/ geo.primary = "failed" /\ geo.stop = "none" /\ pc \notin {"gcp_query", "gcp_read"}
  \/ LoopEnded /\ Malformed(gbuf)

\* C18: when the primary query has failed and the bytes read in reply are
\* malformed, resolution fails: no further query is written and the process
\* dies with "getWindowSize" and status 1; and resolution fails only when
\* the primary query and the fallback have both failed.
C18_MalformedIsFatal ==
  /\ (LoopEnded /\ Malformed(gbuf)) =>
       /\ pc \in {"exit", "done", "crashed"}
       /\ exitStatus = 1
       /\ err[1] = "getWindowSize"
       /\ SubSeq(out, 1, 4) = <<FARCORNER, DSR, ED, HOME>>
       /\ \A i \in 3..Len(out) : out[i] \in {ED, HOME}
  /\ "getWindowSize" \in Range(err) => (geo.primary = "failed" /\ FallbackFailed)
  /\ Resolved => ~FallbackFailed

C18_Witness ==
  /\ pc = "done"
  /\ err = <<"getWindowSize">>
  /\ exitStatus = 1
  /\ geo.stop = "R"
  /\ gbuf = <<ESC, 79, 50, SEMI, 51>>
  /\ nRestored = 1

\* what C19 says of every state
LoopBounded ==
  /\ pc = "gcp_read" => (term.c_cc["VMIN"] = 0 /\ term.c_cc["VTIME"] = 1)
  /\ Len(gbuf) <= BUFSZ - 1
  /\ geo.reads <= BUFSZ - 1
  /\ geo.taken <= geo.reads
  /\ geo.taken <= BUFSZ
  /\ pc = "gcp_read" =>
       /\ geo.stop = "none"
       /\ CH_R \notin Range(gbuf)
       /\ geo.reads = Len(gbuf) /\ geo.taken = Len(gbuf)
  /\ geo.stop = "R" => geo.taken = Len(gbuf) + 1
  /\ geo.stop = "empty" => (geo.taken = Len(gbuf) /\ geo.reads = geo.taken + 1)
  /\ geo.stop = "budget" => (geo.taken = BUFSZ - 1 /\ Len(gbuf) = BUFSZ - 1)

\* C19: the response-reading loop ends: at the first 'R', at the first read
\* that returns no byte, or with the byte budget used up; whatever the
\* stream, it consumes at most 32 bytes and stores none past index 31 of its
\* buffer.  No read of the loop blocks (VMIN = 0, VTIME = 1), and every step
\* of the loop either leaves it or is one more of at most 31 reads that
\* return a byte.
C19_LoopTerminates ==
  /\ []LoopBounded
  /\ [][(pc = "gcp_read" /\ progVars' # progVars) =>
          \/ pc' # "gcp_read"
          \/ /\ geo'.reads = geo.reads + 1
             /\ Len(gbuf') = Len(gbuf) + 1
             /\ Len(avail') = Len(avail) - 1]_vars

C19_Witness ==
  /\ geo.stop = "budget"
  /\ Len(gbuf) = BUFSZ - 1
  /\ avail # <<>>
  /\ wire # <<>>
  /\ pc = "exit"

\* a step in which a fatal failure occurs
FatalFailure ==
  \/ Main_EnableRawMode_GetFail
  \/ Main_EnableRawMode_SetFail
  \/ InitEditor_FallbackWriteFail
  \/ GCP_QueryWriteFail
  \/ (pc = "gcp_read" /\ "getWindowSize" \in Range(err') /\ "getWindowSize" \notin Range(err))
  \/ RK_First_Error
  \/ RK_Seq0_Error
  \/ RK_Seq1_Error
  \/ AtExit_RestoreFail
\* the step clears the screen, prints one diagnostic and exits with status 1
Dies ==
  /\ Len(out') >= Len(out) + 2
  /\ SubSeq(out', Len(out') - 1, Len(out')) = <<ED, HOME>>
  /\ Len(err') = Len(err) + 1
  /\ exitStatus' = 1
  /\ pc' \in {"exit", "done"}

\* C15: every fatal failure (tcgetattr or tcsetattr failing, a read failing
\* otherwise than by timeout, geometry resolution failing) clears the screen,
\* prints a diagnostic and ends the process with status 1, once and with no
\* retry; the process ends with status 0 only after the quit key.
C15_FatalHandledOnce ==
  /\ [][FatalFailure => Dies]_vars
  /\ [](pc # "crashed")
  /\ []((pc = "done" /\ err # <<>>) => exitStatus = 1)
  /\ []((pc = "done" /\ exitStatus = 0) =>
         (err = <<>> /\ events # <<>> /\ events[Len(events)].key = CTRL_Q))

\* C16: a call that read a byte other than '[' after 0x1b returns the bare
\* escape having consumed these two bytes only and made no further read.
C16_NonBracketEndsSequence ==
  \A i \in 1..Len(events) :
    (Len(events[i].bytes) >= 2 /\ events[i].bytes[1].b = ESC /\ events[i].bytes[2].b # LBRACKET) =>
      /\ events[i].key = ESC
      /\ Len(events[i].bytes) = 2
      /\ events[i].reads = 1

\* C17: a read() of the key decoder that fails otherwise than by timeout,
\* whether for the first byte, for seq[0] or for seq[1], ends the process
\* with status 1 and returns no key event.
C17_ReadErrorFatal ==
  [][(RK_First_Error \/ RK_Seq0_Error \/ RK_Seq1_Error) =>
       (pc' = "exit" /\ exitStatus' = 1 /\ events' = events)]_vars

\* a write of editorRefreshScreen: it begins with the hide-cursor sequence
IsFrame(w) == Len(w) >= Len(CUR_HIDE) /\ SubSeq(w, 1, Len(CUR_HIDE)) = CUR_HIDE
\* the refreshes made so far
NFrames == Cardinality({i \in 1..Len(out) : IsFrame(out[i])})
\* editorReadKey is running
Decoding == pc \in {"rk_first", "rk_seq0", "rk_seq1"}
\* the quit event has been dispatched
Terminated ==
  events # <<>> /\ events[Len(events)].key = CTRL_Q /\ pc \notin LoopPcs

\* where the loop stands, told from what it has written and returned: before
\* a refresh every event has had its refresh; while a key is read and when it
\* is dispatched the latest write is the frame of the current state
LoopPhase ==
  /\ pc = "refresh" => NFrames = Len(events)
  /\ Decoding =>
       /\ NFrames = Len(events) + 1
       /\ out[Len(out)] = CompleteFrame(E)
  /\ pc = "dispatch" =>
       /\ NFrames = Len(events)
       /\ out[Len(out)] = CompleteFrame(E)
       /\ key = events[Len(events)].key

Dispatches == pc = "dispatch" /\ pc' # "dispatch"
\* the absolute value of n
Abs(n) == IF n < 0 THEN -n ELSE n
\* the step is part of the geometry resolution of initEditor
ResolvesGeometry == pc \in {"initEditor", "gcp_read"} /\ events = <<>>

\* C22: dispatching an event that is neither a navigation key nor the quit
\* combination leaves cx, cy, screenrows and screencols unchanged; dispatching
\* a navigation key changes at most one of cx and cy, by exactly 1, and leaves
\* screenrows and screencols unchanged; screenrows and screencols are written
\* only by the geometry resolution at startup.
C22_DispatchFrame ==
  [][/\ (Dispatches /\ key \notin Arrows /\ key # CTRL_Q) =>
          /\ E'.cx = E.cx /\ E'.cy = E.cy
          /\ E'.screenrows = E.screenrows /\ E'.screencols = E.screencols
     /\ (Dispatches /\ key \in Arrows) =>
          /\ Abs(E'.cx - E.cx) + Abs(E'.cy - E.cy) <= 1
          /\ E'.screenrows = E.screenrows /\ E'.screencols = E.screencols
     /\ (E'.screenrows # E.screenrows \/ E'.screencols # E.screencols) =>
          ResolvesGeometry]_vars

C22_Witness ==
  /\ pc = "refresh"
  /\ Len(events) = 2
  /\ events[1].key = ARROW_RIGHT
  /\ events[2].key = ESC
  /\ EventBytes(2) = <<ESC>>
  /\ E.screencols = 2
  /\ E.cx = 1
  /\ E.cy = 0

============================================================================
